---- MODULE Spec2Model ----
(***************************************************************************)
(* django-flexquery: the Q.prefix() transform and the FlexQuery type /      *)
(* bound-instance machinery, as state machines.                             *)
(*                                                                          *)
(* Python values are tagged records ([t |-> "int", n |-> 42], ...).         *)
(* Strings that the code concatenates (lookup keys, prefixes) are           *)
(* sequences of one-character strings, so that "+" is \o.                   *)
(***************************************************************************)
EXTENDS FiniteSets, Integers, Sequences, TLC

VARIABLES
    qt,       \* the Q object the test code currently holds
    qlog,     \* the last chain of prefix() calls: receiver, prefixes, results
    heap,     \* the Q objects allocated so far; an object's id is its index
    hlog,     \* the last operation on Q objects: its operands and its result
    types,    \* the FlexQuery types that exist (FlexQuery itself and sub-types)
    bound,    \* the FlexQuery instances constructed so far, in order
    result,   \* outcome of the last FlexQuery operation
    qsattrs,  \* class attributes declared on the QuerySet sub-class QS
    derived   \* outcome of the last Manager derivation from QS

vars == <<qt, qlog, heap, hlog, types, bound, result, qsattrs, derived>>

qvars == <<qt, qlog>>
hvars == <<heap, hlog>>
fqvars == <<types, bound, result>>
mgrvars == <<qsattrs, derived>>

-----------------------------------------------------------------------------
(* Bounds *)

MaxLeaves == 2
MaxDepth == 2
MaxPrefixes == 2
MaxNodes == 3

-----------------------------------------------------------------------------
(* Python values *)

PyNone == [t |-> "None"]
PyInt(n) == [t |-> "int", n |-> n]
PyStr(s) == [t |-> "str", s |-> s]

Range(s) == {s[i] : i \in DOMAIN s}

-----------------------------------------------------------------------------
(* django.db.models.Q as used by q.py *)

LOOKUP_SEP == <<"_", "_">>

AND == "AND"
OR == "OR"

\* a (key, value) child of a Q object
Tuple(key, value) == [t |-> "tuple", key |-> key, value |-> value]

IsQ(child) == child.t = "Q"

\* Q(*args, _connector=None, _negated=False, **kwargs); kwargs are given
\* as the sequence sorted(kwargs.items()).
Q_init(args, kwargs, _connector, _negated) ==
    [t |-> "Q",
     children |-> args \o kwargs,
     connector |-> IF _connector = "None" THEN AND ELSE _connector,
     negated |-> _negated]

\* Q(key=value)
Q_kw(key, value) == Q_init(<<>>, <<Tuple(key, value)>>, "None", FALSE)

\* Q()
Q_empty == Q_init(<<>>, <<>>, "None", FALSE)

\* tree.Node.add(data, conn_type) as called by _combine() and __invert__()
add(self, data, conn_type) ==
    IF data \in Range(self.children) THEN self
    ELSE IF self.connector = conn_type THEN
        IF IsQ(data) /\ ~data.negated
           /\ (data.connector = conn_type \/ Len(data.children) = 1)
        THEN [self EXCEPT !.children = self.children \o data.children]
        ELSE [self EXCEPT !.children = Append(self.children, data)]
    ELSE [self EXCEPT !.connector = conn_type,
                      !.children = <<self, data>>]

\* Q._combine(other, conn): self & other, self | other
_combine(self, other, conn) ==
    IF other.children = <<>> THEN self
    ELSE IF self.children = <<>> THEN other
    ELSE add(add([Q_empty EXCEPT !.connector = conn], self, conn), other, conn)

\* Q.__invert__: ~self
__invert__(self) ==
    [add(Q_empty, self, AND) EXCEPT !.negated = ~@]

RECURSIVE prefix_drops_negated(_, _)
prefix_drops_negated(self, p) ==
    Q_init([i \in DOMAIN self.children |->
               LET child == self.children[i] IN
               IF IsQ(child) THEN prefix_drops_negated(child, p)
               ELSE Tuple(p \o LOOKUP_SEP \o child.key, child.value)],
           <<>>, self.connector, FALSE)

RECURSIVE prefix_appends(_, _)
prefix_appends(self, p) ==
    Q_init([i \in DOMAIN self.children |->
               LET child == self.children[i] IN
               IF IsQ(child) THEN prefix_appends(child, p)
               ELSE Tuple(child.key \o LOOKUP_SEP \o p, child.value)],
           <<>>, self.connector, self.negated)

\* Q.prefix(prefix)
RECURSIVE prefix(_, _)
prefix(self, p) ==
    Q_init([i \in DOMAIN self.children |->
               LET child == self.children[i] IN
               IF IsQ(child) THEN prefix(child, p)
               ELSE Tuple(p \o LOOKUP_SEP \o child.key, child.value)],
           <<>>, self.connector, self.negated)

RECURSIVE NumLeaves(_)
NumLeaves(q) ==
    LET RECURSIVE Sum(_)
        Sum(i) == IF i = 0 THEN 0
                  ELSE Sum(i - 1) + (IF IsQ(q.children[i])
                                     THEN NumLeaves(q.children[i]) ELSE 1)
    IN Sum(Len(q.children))

RECURSIVE Depth(_)
Depth(q) ==
    LET RECURSIVE Max(_)
        Max(i) == IF i = 0 THEN 0
                  ELSE LET m == Max(i - 1)
                           d == IF IsQ(q.children[i])
                                THEN 1 + Depth(q.children[i]) ELSE 0
                       IN IF d > m THEN d ELSE m
    IN Max(Len(q.children))

\* the keyword arguments the tests build Q objects from
LeafPairs == {<< <<"a">>, PyInt(42)>>, << <<"b">>, PyInt(43)>>}

\* the related-field names the tests prefix with
Prefixes == {<<"x">>, <<"y", "z">>}

\* operands of & and |: Q(k=v) and ~Q(k=v)
Operands ==
    {Q_kw(l[1], l[2]) : l \in LeafPairs}
        \cup {__invert__(Q_kw(l[1], l[2])) : l \in LeafPairs}

Small(q) == NumLeaves(q) <= MaxLeaves /\ Depth(q) <= MaxDepth

NoLog == [recv |-> Q_empty, prefixes |-> <<>>, rets |-> <<>>]

QInit ==
    /\ qt = Q_empty
    /\ qlog = NoLog

\* qt = Q(k=v)
QNew ==
    \E l \in LeafPairs :
        /\ qlog = NoLog
        /\ qt' = Q_kw(l[1], l[2])
        /\ UNCHANGED qlog

\* qt = qt & o, qt = qt | o, qt = o & qt, qt = o | qt
QCombine ==
    \E o \in Operands, conn \in {AND, OR}, left \in BOOLEAN :
        LET q == IF left THEN _combine(o, qt, conn) ELSE _combine(qt, o, conn) IN
        /\ qlog = NoLog
        /\ Small(q)
        /\ qt' = q
        /\ UNCHANGED qlog

\* qt = ~qt
QInvert ==
    /\ qlog = NoLog
    /\ Small(__invert__(qt))
    /\ qt' = __invert__(qt)
    /\ UNCHANGED qlog

\* qt.prefix(p)
QPrefix ==
    \E p \in Prefixes :
        /\ qlog' = [recv |-> qt, prefixes |-> <<p>>, rets |-> <<prefix(qt, p)>>]
        /\ UNCHANGED qt

\* (...).prefix(p) on the result of the previous prefix() call
QPrefixAgain ==
    \E p \in Prefixes :
        /\ qlog.prefixes # <<>>
        /\ Len(qlog.prefixes) < MaxPrefixes
        /\ qlog' = [qlog EXCEPT
                        !.prefixes = Append(@, p),
                        !.rets = Append(@, prefix(qlog.rets[Len(qlog.rets)], p))]
        /\ UNCHANGED qt

-----------------------------------------------------------------------------
(* Q objects with identity: what prefix() allocates and what it leaves alone *)

\* a reference to the Q object heap[id]; isinstance(ref, Q) holds
Ref(id) == [t |-> "Q", id |-> id]

\* the tree a child stands for: a tuple is itself, a reference is the
\* object it points to with its children resolved (Node.__eq__ compares so)
RECURSIVE Deref(_, _)
Deref(h, child) ==
    IF IsQ(child)
    THEN [t |-> "Q",
          children |-> [i \in DOMAIN h[child.id].children |->
                            Deref(h, h[child.id].children[i])],
          connector |-> h[child.id].connector,
          negated |-> h[child.id].negated]
    ELSE child

\* the ids of the object id and of every Q object nested in it
RECURSIVE Nodes(_, _)
Nodes(h, id) ==
    {id} \cup UNION {Nodes(h, h[id].children[i].id) :
                        i \in {j \in DOMAIN h[id].children : IsQ(h[id].children[j])}}

\* Q(*args, _connector=..., _negated=...): a new object owning a new list
\* of children; the result is the object with id Len(h) + 1
new_Q(h, args, _connector, _negated) ==
    [h |-> Append(h, [children |-> args,
                      connector |-> IF _connector = "None" THEN AND ELSE _connector,
                      negated |-> _negated]),
     ret |-> Len(h) + 1]

\* tree.Node.add(data, conn_type) on the object self, data a reference
add_obj(h, self, data, conn_type) ==
    IF \E i \in DOMAIN h[self].children :
           Deref(h, h[self].children[i]) = Deref(h, data)
    THEN h
    ELSE IF h[self].connector = conn_type THEN
        IF ~h[data.id].negated
           /\ (h[data.id].connector = conn_type \/ Len(h[data.id].children) = 1)
        THEN [h EXCEPT ![self].children = @ \o h[data.id].children]
        ELSE [h EXCEPT ![self].children = Append(@, data)]
    ELSE [Append(h, h[self]) EXCEPT ![self].connector = conn_type,
                                    ![self].children = <<Ref(Len(h) + 1), data>>]

\* Q._combine(other, conn) for two objects that have children:
\* obj = type(self)(); obj.connector = conn; obj.add(self, conn);
\* obj.add(other, conn); return obj
_combine_obj(h, self, other, conn) ==
    LET o == new_Q(h, <<>>, conn, FALSE) IN
    [h |-> add_obj(add_obj(o.h, o.ret, Ref(self), conn), o.ret, Ref(other), conn),
     ret |-> o.ret]

\* Q.__invert__: obj = type(self)(); obj.add(self, self.AND); obj.negate()
__invert___obj(h, self) ==
    LET o == new_Q(h, <<>>, "None", FALSE) IN
    [h |-> [add_obj(o.h, o.ret, Ref(self), AND) EXCEPT ![o.ret].negated = ~@],
     ret |-> o.ret]

RECURSIVE prefix_obj_keeps_nested(_, _, _)
prefix_obj_keeps_nested(h, self, p) ==
    new_Q(h,
          [i \in DOMAIN h[self].children |->
               LET child == h[self].children[i] IN
               IF IsQ(child) THEN child
               ELSE Tuple(p \o LOOKUP_SEP \o child.key, child.value)],
          h[self].connector, h[self].negated)

\* Q.prefix(prefix) on the object self: the children are prefixed in order,
\* each nested Q by a recursive call, then the new object is constructed
RECURSIVE prefix_obj(_, _, _)
prefix_obj(h, self, p) ==
    LET RECURSIVE Args(_)
        Args(i) ==
            IF i = 0 THEN [h |-> h, args |-> <<>>]
            ELSE LET a == Args(i - 1)
                     child == a.h[self].children[i]
                 IN IF IsQ(child)
                    THEN LET r == prefix_obj(a.h, child.id, p) IN
                         [h |-> r.h, args |-> Append(a.args, Ref(r.ret))]
                    ELSE [h |-> a.h,
                          args |-> Append(a.args,
                                          Tuple(p \o LOOKUP_SEP \o child.key,
                                                child.value))]
        a == Args(Len(h[self].children))
    IN new_Q(a.h, a.args, a.h[self].connector, a.h[self].negated)

HInit ==
    /\ heap = <<>>
    /\ hlog = [op |-> "none", calls |-> 0]

\* Q(k=v)
HNew ==
    \E l \in LeafPairs :
        /\ hlog.calls = 0
        /\ Len(heap) < MaxNodes
        /\ LET o == new_Q(heap, <<Tuple(l[1], l[2])>>, "None", FALSE) IN
           /\ heap' = o.h
           /\ hlog' = [op |-> "Q", calls |-> 0, ret |-> o.ret]

\* a & b, a | b for two objects allocated before
HCombine ==
    \E self \in DOMAIN heap, other \in DOMAIN heap, conn \in {AND, OR} :
        /\ hlog.calls = 0
        /\ Len(heap) < MaxNodes
        /\ LET o == _combine_obj(heap, self, other, conn) IN
           /\ heap' = o.h
           /\ hlog' = [op |-> "combine", calls |-> 0, ret |-> o.ret]

\* ~a for an object allocated before
HInvert ==
    \E self \in DOMAIN heap :
        /\ hlog.calls = 0
        /\ Len(heap) < MaxNodes
        /\ LET o == __invert___obj(heap, self) IN
           /\ heap' = o.h
           /\ hlog' = [op |-> "invert", calls |-> 0, ret |-> o.ret]

\* a.prefix(p) for any object allocated before, results of prefix() and
\* nested objects included
HPrefix ==
    \E self \in DOMAIN heap, p \in Prefixes :
        /\ hlog.calls < MaxPrefixes
        /\ LET o == prefix_obj(heap, self, p) IN
           /\ heap' = o.h
           /\ hlog' = [op |-> "prefix", calls |-> hlog.calls + 1,
                       self |-> self, p |-> p, ret |-> o.ret]

-----------------------------------------------------------------------------
(* The collection API FlexQuery works on: Manager and QuerySet over AModel *)

\* the rows the tests create in setUp()
Table == {[pk |-> 1, a |-> 24], [pk |-> 2, a |-> 42]}

ManagerObj == [t |-> "Manager"]
QuerySetObj(rows) == [t |-> "QuerySet", rows |-> rows]
\* an instance of neither Manager nor QuerySet
OtherObj == [t |-> "object"]

\* isinstance(x, (_Manager, _QuerySet))
IsCollection(x) == x.t \in {"Manager", "QuerySet"}

PkIn == <<"p", "k", "_", "_", "i", "n">>

\* does the row satisfy the Q object
RECURSIVE EvalQ(_, _)
EvalQ(q, row) ==
    LET holds(child) ==
            IF IsQ(child) THEN EvalQ(child, row)
            ELSE IF child.key = <<"a">> THEN PyInt(row.a) = child.value
            ELSE IF child.key = PkIn
                 THEN row.pk \in {r.pk : r \in child.value.rows}
            ELSE FALSE
        plain ==
            IF q.children = <<>> THEN TRUE
            ELSE IF q.connector = AND
                 THEN \A i \in DOMAIN q.children : holds(q.children[i])
                 ELSE \E i \in DOMAIN q.children : holds(q.children[i])
    IN IF q.children # <<>> /\ q.negated THEN ~plain ELSE plain

\* base.all()
all(base) ==
    IF base.t = "Manager" THEN QuerySetObj(Table) ELSE QuerySetObj(base.rows)

\* base.filter(q)
filter(base, q) ==
    QuerySetObj({r \in all(base).rows : EvalQ(q, r)})

\* base.none()
none(base) == QuerySetObj({})

-----------------------------------------------------------------------------
(* The functions application code hands to the factories *)

Function(name) == [t |-> "function", name |-> name]

\* q_func = lambda a=42: Q(a=a)
q_func == Function("q_func")
\* qs_func = lambda qs, a=42: qs.filter(a=a)
qs_func == Function("qs_func")
\* a value that is no function: FlexQuery.from_func("foo")
NotAFunction == PyStr("foo")

\* the outcome of an operation: the exception raised ("None" if none), the
\* value returned, and the calls of user functions it made, in order
Returns(value, calls) == [raised |-> "None", ret |-> value, calls |-> calls]
Raises(exc, calls) == [raised |-> exc, ret |-> PyNone, calls |-> calls]

\* fq = lambda user: Q(a=42), the predicate function of the adapter tests
fq == Function("fq")
\* qs_fq = lambda qs, user: qs.filter(a=42)
qs_fq == Function("qs_fq")

\* func(*argv)
CallFunc(func, argv) ==
    LET call == <<[func |-> func, argv |-> argv]>> IN
    IF func.t # "function" THEN Raises("TypeError", <<>>)
    ELSE IF func.name = "q_func" THEN
        Returns(Q_kw(<<"a">>, IF argv = <<>> THEN PyInt(42) ELSE argv[1]), call)
    ELSE IF func.name = "qs_func" THEN
        Returns(filter(argv[1],
                       Q_kw(<<"a">>, IF Len(argv) = 1 THEN PyInt(42) ELSE argv[2])),
                call)
    ELSE IF func.name = "fq" THEN
        Returns(Q_kw(<<"a">>, PyInt(42)), call)
    ELSE
        Returns(filter(argv[1], Q_kw(<<"a">>, PyInt(42))), call)

\* the call-time arguments the model passes to bound filters
ArgLists == {<<>>, <<PyInt(24)>>}

-----------------------------------------------------------------------------
(* flexquery.py: FlexQueryType, FlexQuery, InitializedFlexQueryMixin *)

\* how many types the application derives from an undeclared type
MaxTypes == 1
\* how many instances are constructed
MaxBound == 2

\* class FlexQuery: no function attached, not derived by a factory
FlexQuery ==
    [name |-> "FlexQuery", initialized |-> FALSE,
     q_func |-> PyNone, qs_func |-> PyNone]

\* a type object, named by its place in types
TypeRef(c) == [t |-> "type", cls |-> c]
\* an instance object, named by its place in bound
InstanceRef(i) == [t |-> "FlexQuery", id |-> i]

\* the instance cls(base) once __init__ has returned
Instance(c, base) == [cls |-> c, base |-> base]

\* FlexQuery.__init__(self, base), run on a new instance of types[c]
__init___skips_base_check(c, base) ==
    IF types[c].q_func = PyNone /\ types[c].qs_func = PyNone
    THEN Raises("ImproperlyConfigured", <<>>)
    ELSE Returns(InstanceRef(Len(bound) + 1), <<>>)

__init__(c, base) ==
    IF types[c].q_func = PyNone /\ types[c].qs_func = PyNone
    THEN Raises("ImproperlyConfigured", <<>>)
    ELSE IF ~IsCollection(base) THEN Raises("TypeError", <<>>)
    ELSE Returns(InstanceRef(Len(bound) + 1), <<>>)

\* the instances that exist after cls(base) ended with outcome o
Constructed(c, base, o) ==
    IF o.raised = "None" /\ o.ret.t = "FlexQuery"
    THEN Append(bound, Instance(c, base))
    ELSE bound

\* an instance bound to the same holder exists already: hand it out again
__get___cached(c, instance) ==
    IF types[c].initialized /\ IsCollection(instance)
    THEN IF \E i \in DOMAIN bound : bound[i] = Instance(c, instance)
         THEN Returns(InstanceRef(CHOOSE i \in DOMAIN bound :
                                      bound[i] = Instance(c, instance)), <<>>)
         ELSE __init__(c, instance)
    ELSE Returns(TypeRef(c), <<>>)

\* FlexQueryType.__get__(cls, instance, owner); instance is PyNone on
\* class access
__get__(c, instance) ==
    IF types[c].initialized /\ IsCollection(instance)
    THEN __init__(c, instance)
    ELSE Returns(TypeRef(c), <<>>)

__call___unfiltered(self, args) ==
    IF types[self.cls].q_func = PyNone
    THEN CallFunc(types[self.cls].qs_func, <<all(self.base)>> \o args)
    ELSE CallFunc(types[self.cls].q_func, args)

\* FlexQuery.__call__(self, *args)
__call__(self, args) ==
    IF types[self.cls].q_func = PyNone
    THEN CallFunc(types[self.cls].qs_func, <<all(self.base)>> \o args)
    ELSE LET o == CallFunc(types[self.cls].q_func, args) IN
         IF o.raised # "None" THEN o
         ELSE Returns(filter(self.base, o.ret), o.calls)

as_q_filters(self, args) ==
    IF types[self.cls].q_func = PyNone
    THEN LET o == CallFunc(types[self.cls].qs_func, <<all(self.base)>> \o args) IN
         IF o.raised # "None" THEN o
         ELSE Returns(Q_init(<<>>, <<Tuple(PkIn, o.ret)>>, "None", FALSE), o.calls)
    ELSE LET o == CallFunc(types[self.cls].q_func, args) IN
         IF o.raised # "None" THEN o
         ELSE Returns(Q_init(<<>>, <<Tuple(PkIn, filter(self.base, o.ret))>>,
                             "None", FALSE), o.calls)

\* FlexQuery.as_q(self, *args)
as_q(self, args) ==
    IF types[self.cls].q_func = PyNone
    THEN LET o == CallFunc(types[self.cls].qs_func, <<all(self.base)>> \o args) IN
         IF o.raised # "None" THEN o
         ELSE Returns(Q_init(<<>>, <<Tuple(PkIn, o.ret)>>, "None", FALSE), o.calls)
    ELSE CallFunc(types[self.cls].q_func, args)

\* FlexQueryType.__repr__(cls): names the function by its __name__, which
\* only a function has
__repr__(c) ==
    LET func == IF types[c].q_func = PyNone
                THEN types[c].qs_func ELSE types[c].q_func
    IN IF types[c].q_func # PyNone \/ types[c].qs_func # PyNone
       THEN IF func.t = "function"
            THEN Returns(PyStr(func.name), <<>>)
            ELSE Raises("AttributeError", <<>>)
       ELSE Returns(PyStr(types[c].name), <<>>)

\* InitializedFlexQueryMixin._already_initialized(cls): formats cls with %r
\* into the message of the NotImplementedError it raises
_already_initialized(c) ==
    IF __repr__(c).raised # "None" THEN __repr__(c)
    ELSE Raises("NotImplementedError", <<>>)

from_q_rederives(c, func) ==
    Returns(TypeRef(Len(types) + 1), <<>>)

\* cls.from_q(func): FlexQuery.from_q, or InitializedFlexQueryMixin.from_q
\* when cls has the mixin first among its bases
from_q(c, func) ==
    IF types[c].initialized THEN _already_initialized(c)
    ELSE Returns(TypeRef(Len(types) + 1), <<>>)

\* cls.from_queryset(func), likewise
from_queryset(c, func) ==
    IF types[c].initialized THEN _already_initialized(c)
    ELSE Returns(TypeRef(Len(types) + 1), <<>>)

\* the type the factory builds: (InitializedFlexQueryMixin, cls) with the
\* function set as a staticmethod; everything else is inherited from cls
FromQFunction(c, func) ==
    [types[c] EXCEPT !.name = @ \o "FromQFunction",
                     !.initialized = TRUE,
                     !.q_func = func]

FromQuerySetFunction(c, func) ==
    [types[c] EXCEPT !.name = @ \o "FromQuerySetFunction",
                     !.initialized = TRUE,
                     !.qs_func = func]

\* the holders a FlexQuery type is bound to or accessed on
Bases == {ManagerObj, QuerySetObj({[pk |-> 1, a |-> 24]})}
Holders == Bases \cup {OtherObj, PyNone}

FQInit ==
    /\ types = <<FlexQuery>>
    /\ bound = <<>>
    /\ result = [op |-> "import"]

\* fq = cls.from_q(func)
FromQ ==
    \E c \in DOMAIN types, func \in {q_func, NotAFunction} :
        LET o == from_q(c, func) IN
        /\ types[c].initialized \/ Len(types) <= MaxTypes
        /\ types' = IF o.raised = "None"
                    THEN Append(types, FromQFunction(c, func)) ELSE types
        /\ result' = [op |-> "from_q", cls |-> c, func |-> func, out |-> o]
        /\ UNCHANGED bound

\* fq = cls.from_queryset(func)
FromQueryset ==
    \E c \in DOMAIN types, func \in {qs_func, NotAFunction} :
        LET o == from_queryset(c, func) IN
        /\ types[c].initialized \/ Len(types) <= MaxTypes
        /\ types' = IF o.raised = "None"
                    THEN Append(types, FromQuerySetFunction(c, func)) ELSE types
        /\ result' = [op |-> "from_queryset", cls |-> c, func |-> func, out |-> o]
        /\ UNCHANGED bound

\* cls(base)
Bind ==
    \E c \in DOMAIN types, base \in Bases \cup {OtherObj} :
        LET o == __init__(c, base) IN
        /\ Len(bound) < MaxBound
        /\ bound' = Constructed(c, base, o)
        /\ result' = [op |-> "bind", cls |-> c, base |-> base, out |-> o]
        /\ UNCHANGED types

\* holder.fq, with the type as a class attribute of the holder's class;
\* PyNone stands for access on the class itself
Get ==
    \E c \in DOMAIN types, holder \in Holders :
        LET o == __get__(c, holder) IN
        /\ Len(bound) < MaxBound
        /\ bound' = Constructed(c, holder, o)
        /\ result' = [op |-> "get", cls |-> c, base |-> holder, out |-> o]
        /\ UNCHANGED types

\* bound_filter(*args)
Call ==
    \E i \in DOMAIN bound, args \in ArgLists :
        /\ result' = [op |-> "call", self |-> i, args |-> args,
                      out |-> __call__(bound[i], args)]
        /\ UNCHANGED <<types, bound>>

\* bound_filter.as_q(*args)
AsQ ==
    \E i \in DOMAIN bound, args \in ArgLists :
        /\ result' = [op |-> "as_q", self |-> i, args |-> args,
                      out |-> as_q(bound[i], args)]
        /\ UNCHANGED <<types, bound>>

-----------------------------------------------------------------------------
(* contrib/for_user.py: ForUserFlexQuery *)

\* class ForUserFlexQuery(FlexQuery): all_if_no_user = False
ForUserFlexQuery ==
    [name |-> "ForUserFlexQuery", initialized |-> FALSE,
     q_func |-> PyNone, qs_func |-> PyNone, all_if_no_user |-> FALSE]

User == [t |-> "User", name |-> "alice"]
AnonymousUser == [t |-> "AnonymousUser"]
\* request = RequestFactory().get("/"), with request.user = user set or not
HttpRequest(has_user, user) ==
    [t |-> "HttpRequest", has_user |-> has_user, user |-> user]

\* what the tests pass as first argument of a bound adapter
UserArgs ==
    {PyNone, User, AnonymousUser,
     HttpRequest(FALSE, PyNone), HttpRequest(TRUE, PyNone),
     HttpRequest(TRUE, User), HttpRequest(TRUE, AnonymousUser)}

\* FlexQuery.call_bound(self, *args) of the FlexQuery the adapters extend:
\* the Q object of the function, called with the arguments given
call_bound(self, args) == as_q(self, args)

ForUserFlexQuery_call_bound_swapped(self, args) ==
    LET user == IF args[1].t = "HttpRequest"
                THEN IF args[1].has_user THEN args[1].user ELSE PyNone
                ELSE args[1]
    IN IF user = PyNone
       THEN IF types[self.cls].all_if_no_user
            THEN Returns(Q_init(<<>>, <<Tuple(PkIn, none(self.base))>>,
                                "None", FALSE), <<>>)
            ELSE Returns(Q_empty, <<>>)
       ELSE call_bound(self, <<user>> \o Tail(args))

\* ForUserFlexQuery.call_bound(self, user, *args); args[1] is user
ForUserFlexQuery_call_bound(self, args) ==
    LET user == IF args[1].t = "HttpRequest"
                THEN IF args[1].has_user THEN args[1].user ELSE PyNone
                ELSE args[1]
    IN IF user = PyNone
       THEN IF types[self.cls].all_if_no_user
            THEN Returns(Q_empty, <<>>)
            ELSE Returns(Q_init(<<>>, <<Tuple(PkIn, none(self.base))>>,
                                "None", FALSE), <<>>)
       ELSE call_bound(self, <<user>> \o Tail(args))

\* calling a bound adapter: the base filtered by the Q of call_bound
ForUserFlexQuery___call__(self, args) ==
    LET o == ForUserFlexQuery_call_bound(self, args) IN
    IF o.raised # "None" THEN o
    ELSE Returns(filter(self.base, o.ret), o.calls)

ForUserInit ==
    /\ types = <<ForUserFlexQuery>>
    /\ bound = <<>>
    /\ result = [op |-> "import"]

\* fq = ForUserFlexQuery.from_q(func)
ForUserFromQ ==
    \E c \in DOMAIN types :
        LET o == from_q(c, fq) IN
        /\ types[c].initialized \/ Len(types) <= MaxTypes
        /\ types' = IF o.raised = "None"
                    THEN Append(types, FromQFunction(c, fq)) ELSE types
        /\ result' = [op |-> "from_q", cls |-> c, func |-> fq, out |-> o]
        /\ UNCHANGED bound

\* fq = ForUserFlexQuery.from_queryset(func)
ForUserFromQueryset ==
    \E c \in DOMAIN types :
        LET o == from_queryset(c, qs_fq) IN
        /\ types[c].initialized \/ Len(types) <= MaxTypes
        /\ types' = IF o.raised = "None"
                    THEN Append(types, FromQuerySetFunction(c, qs_fq)) ELSE types
        /\ result' = [op |-> "from_queryset", cls |-> c, func |-> qs_fq, out |-> o]
        /\ UNCHANGED bound

\* man.fq.__class__.all_if_no_user = value
SetAllIfNoUser ==
    \E c \in DOMAIN types, value \in BOOLEAN :
        /\ types[c].initialized
        /\ types' = [types EXCEPT ![c].all_if_no_user = value]
        /\ result' = [op |-> "setattr", cls |-> c, value |-> value]
        /\ UNCHANGED bound

\* man.fq(user)
ForUserCall ==
    \E i \in DOMAIN bound, user \in UserArgs :
        /\ result' = [op |-> "call", self |-> i, args |-> <<user>>,
                      out |-> ForUserFlexQuery___call__(bound[i], <<user>>)]
        /\ UNCHANGED <<types, bound>>

-----------------------------------------------------------------------------
(* contrib/user_based.py: UserBasedFlexQuery *)

NUB_ALL == 0
NUB_NONE == 1
NUB_PASS == 2

\* class UserBasedFlexQuery(FlexQuery): no_user_behavior = NUB_NONE,
\* pass_anonymous_user = True
UserBasedFlexQuery ==
    [name |-> "UserBasedFlexQuery", initialized |-> FALSE,
     q_func |-> PyNone, qs_func |-> PyNone,
     no_user_behavior |-> NUB_NONE, pass_anonymous_user |-> TRUE]

\* isinstance(user, AnonymousUser)
IsAnonymousUser(user) == user.t = "AnonymousUser"

UserBasedFlexQuery_call_bound_keeps_anonymous(self, args) ==
    LET user == IF args[1].t = "HttpRequest"
                THEN IF args[1].has_user THEN args[1].user ELSE PyNone
                ELSE args[1]
    IN IF user = PyNone /\ types[self.cls].no_user_behavior = NUB_ALL
       THEN Returns(Q_empty, <<>>)
       ELSE IF user = PyNone /\ types[self.cls].no_user_behavior = NUB_NONE
       THEN Returns(Q_init(<<>>, <<Tuple(PkIn, none(self.base))>>,
                           "None", FALSE), <<>>)
       ELSE call_bound(self, <<user>> \o Tail(args))

\* UserBasedFlexQuery.call_bound(self, user, *args); args[1] is user
UserBasedFlexQuery_call_bound(self, args) ==
    LET given == IF args[1].t = "HttpRequest"
                 THEN IF args[1].has_user THEN args[1].user ELSE PyNone
                 ELSE args[1]
        user == IF ~types[self.cls].pass_anonymous_user /\ IsAnonymousUser(given)
                THEN PyNone ELSE given
    IN IF user = PyNone /\ types[self.cls].no_user_behavior = NUB_ALL
       THEN Returns(Q_empty, <<>>)
       ELSE IF user = PyNone /\ types[self.cls].no_user_behavior = NUB_NONE
       THEN Returns(Q_init(<<>>, <<Tuple(PkIn, none(self.base))>>,
                           "None", FALSE), <<>>)
       ELSE call_bound(self, <<user>> \o Tail(args))

\* calling a bound adapter: the base filtered by the Q of call_bound
UserBasedFlexQuery___call__(self, args) ==
    LET o == UserBasedFlexQuery_call_bound(self, args) IN
    IF o.raised # "None" THEN o
    ELSE Returns(filter(self.base, o.ret), o.calls)

UserBasedInit ==
    /\ types = <<UserBasedFlexQuery>>
    /\ bound = <<>>
    /\ result = [op |-> "import"]

\* fq = UserBasedFlexQuery.from_q(func)
UserBasedFromQ ==
    \E c \in DOMAIN types :
        LET o == from_q(c, fq) IN
        /\ types[c].initialized \/ Len(types) <= MaxTypes
        /\ types' = IF o.raised = "None"
                    THEN Append(types, FromQFunction(c, fq)) ELSE types
        /\ result' = [op |-> "from_q", cls |-> c, func |-> fq, out |-> o]
        /\ UNCHANGED bound

\* fq = UserBasedFlexQuery.from_queryset(func)
UserBasedFromQueryset ==
    \E c \in DOMAIN types :
        LET o == from_queryset(c, qs_fq) IN
        /\ types[c].initialized \/ Len(types) <= MaxTypes
        /\ types' = IF o.raised = "None"
                    THEN Append(types, FromQuerySetFunction(c, qs_fq)) ELSE types
        /\ result' = [op |-> "from_queryset", cls |-> c, func |-> qs_fq, out |-> o]
        /\ UNCHANGED bound

\* man.fq.__class__.no_user_behavior = UserBasedFlexQuery.NUB_...
SetNoUserBehavior ==
    \E c \in DOMAIN types, value \in {NUB_ALL, NUB_NONE, NUB_PASS} :
        /\ types[c].initialized
        /\ types' = [types EXCEPT ![c].no_user_behavior = value]
        /\ result' = [op |-> "setattr", cls |-> c]
        /\ UNCHANGED bound

\* man.fq.__class__.pass_anonymous_user = value
SetPassAnonymousUser ==
    \E c \in DOMAIN types, value \in BOOLEAN :
        /\ types[c].initialized
        /\ types' = [types EXCEPT ![c].pass_anonymous_user = value]
        /\ result' = [op |-> "setattr", cls |-> c]
        /\ UNCHANGED bound

\* man.fq(user)
UserBasedCall ==
    \E i \in DOMAIN bound, user \in UserArgs :
        /\ result' = [op |-> "call", self |-> i, args |-> <<user>>,
                      out |-> UserBasedFlexQuery___call__(bound[i], <<user>>)]
        /\ UNCHANGED <<types, bound>>

-----------------------------------------------------------------------------
(* flexquery.py: Manager._get_queryset_methods, QuerySet.as_manager *)

\* names a class attribute of QS may have; Manager has a "count" of its own
AttrNames == {"fq", "_fq", "count"}

\* hasattr(cls, name) for the Manager class
ManagerHas(name) == name = "count"

\* name.startswith("_")
IsPrivate(name) == name = "_fq"

\* what a class attribute of QS may be: a FlexQuery type, a plain function
\* or some other value, the first two with queryset_only unset or set
Members ==
    [t : {"FlexQueryType"}, fq : {"fq_from_q", "fq_from_qs"},
     queryset_only : {"None", "True", "False"}]
        \cup [t : {"function"}, queryset_only : {"None", "True", "False"}]
        \cup {PyInt(1)}

\* isinstance(member, FlexQueryType)
IsFlexQueryType(member) == member.t = "FlexQueryType"

\* django's Manager._get_queryset_methods(queryset_class), reached by super():
\* a manager method for every function not yet on the manager that is
\* public or has queryset_only = False
super__get_queryset_methods(queryset_class) ==
    LET copied == {n \in DOMAIN queryset_class :
                      /\ queryset_class[n].t = "function"
                      /\ ~ManagerHas(n)
                      /\ ~(queryset_class[n].queryset_only = "True"
                           \/ (queryset_class[n].queryset_only = "None"
                               /\ IsPrivate(n)))}
    IN [n \in copied |-> [t |-> "manager_method", name |-> n]]

_get_queryset_methods_native(queryset_class) ==
    super__get_queryset_methods(queryset_class)

\* Manager._get_queryset_methods(cls, queryset_class)
_get_queryset_methods(queryset_class) ==
    LET methods == super__get_queryset_methods(queryset_class)
        members == {n \in DOMAIN queryset_class :
                       /\ IsFlexQueryType(queryset_class[n])
                       /\ queryset_class[n].queryset_only # "True"}
    IN [n \in DOMAIN methods \cup members |->
           IF n \in members THEN queryset_class[n] ELSE methods[n]]

\* Manager.from_queryset(queryset_class): the class attributes of the
\* manager class it creates
Manager_from_queryset(queryset_class) ==
    _get_queryset_methods(queryset_class)

MgrInit ==
    /\ qsattrs = [n \in {} |-> PyNone]
    /\ derived = [op |-> "class"]

\* class QS(QuerySet): name = member
Declare ==
    \E name \in AttrNames, member \in Members :
        /\ name \notin DOMAIN qsattrs
        /\ qsattrs' = [n \in DOMAIN qsattrs \cup {name} |->
                          IF n = name THEN member ELSE qsattrs[n]]
        /\ derived' = [op |-> "class"]

\* class Man(Manager.from_queryset(QS))
FromQuerySetClass ==
    /\ derived' = [op |-> "from_queryset",
                   attrs |-> Manager_from_queryset(qsattrs),
                   _built_with_as_manager |-> FALSE]
    /\ UNCHANGED qsattrs

\* objects = QS.as_manager()
AsManager ==
    /\ derived' = [op |-> "as_manager",
                   attrs |-> Manager_from_queryset(qsattrs),
                   _built_with_as_manager |-> TRUE]
    /\ UNCHANGED qsattrs

Init == QInit /\ HInit /\ FQInit /\ MgrInit

NextQ ==
    \/ QNew /\ UNCHANGED <<hvars, fqvars, mgrvars>>
    \/ QCombine /\ UNCHANGED <<hvars, fqvars, mgrvars>>
    \/ QInvert /\ UNCHANGED <<hvars, fqvars, mgrvars>>
    \/ QPrefix /\ UNCHANGED <<hvars, fqvars, mgrvars>>
    \/ QPrefixAgain /\ UNCHANGED <<hvars, fqvars, mgrvars>>

SpecQ == Init /\ [][NextQ]_vars

NextHeap ==
    \/ HNew /\ UNCHANGED <<qvars, fqvars, mgrvars>>
    \/ HCombine /\ UNCHANGED <<qvars, fqvars, mgrvars>>
    \/ HInvert /\ UNCHANGED <<qvars, fqvars, mgrvars>>
    \/ HPrefix /\ UNCHANGED <<qvars, fqvars, mgrvars>>

SpecHeap == Init /\ [][NextHeap]_vars

Next ==
    \/ FromQ /\ UNCHANGED <<qvars, hvars, mgrvars>>
    \/ FromQueryset /\ UNCHANGED <<qvars, hvars, mgrvars>>
    \/ Bind /\ UNCHANGED <<qvars, hvars, mgrvars>>
    \/ Get /\ UNCHANGED <<qvars, hvars, mgrvars>>
    \/ Call /\ UNCHANGED <<qvars, hvars, mgrvars>>
    \/ AsQ /\ UNCHANGED <<qvars, hvars, mgrvars>>

Spec == Init /\ [][Next]_vars

InitForUser == QInit /\ HInit /\ ForUserInit /\ MgrInit

NextForUser ==
    \/ ForUserFromQ /\ UNCHANGED <<qvars, hvars, mgrvars>>
    \/ ForUserFromQueryset /\ UNCHANGED <<qvars, hvars, mgrvars>>
    \/ Get /\ UNCHANGED <<qvars, hvars, mgrvars>>
    \/ SetAllIfNoUser /\ UNCHANGED <<qvars, hvars, mgrvars>>
    \/ ForUserCall /\ UNCHANGED <<qvars, hvars, mgrvars>>

SpecForUser == InitForUser /\ [][NextForUser]_vars

InitUserBased == QInit /\ HInit /\ UserBasedInit /\ MgrInit

NextUserBased ==
    \/ UserBasedFromQ /\ UNCHANGED <<qvars, hvars, mgrvars>>
    \/ UserBasedFromQueryset /\ UNCHANGED <<qvars, hvars, mgrvars>>
    \/ Get /\ UNCHANGED <<qvars, hvars, mgrvars>>
    \/ SetNoUserBehavior /\ UNCHANGED <<qvars, hvars, mgrvars>>
    \/ SetPassAnonymousUser /\ UNCHANGED <<qvars, hvars, mgrvars>>
    \/ UserBasedCall /\ UNCHANGED <<qvars, hvars, mgrvars>>

SpecUserBased == InitUserBased /\ [][NextUserBased]_vars

NextManager ==
    \/ Declare /\ UNCHANGED <<qvars, hvars, fqvars>>
    \/ FromQuerySetClass /\ UNCHANGED <<qvars, hvars, fqvars>>
    \/ AsManager /\ UNCHANGED <<qvars, hvars, fqvars>>

SpecManager == Init /\ [][NextManager]_vars

-----------------------------------------------------------------------------
(* Properties of FlexQuery *)

\* the type has q_func or qs_func set: it is a Filter Definition
HasFunction(typ) == typ.q_func # PyNone \/ typ.qs_func # PyNone

\* what it has set is a function
CarriesFunction(typ) ==
    typ.q_func.t = "function" \/ typ.qs_func.t = "function"

\* the value of the argument a the functions filter on
ArgA(args) == IF args = <<>> THEN 42 ELSE args[1].n

\* the rows of the base
BaseRows(base) == IF base.t = "Manager" THEN Table ELSE base.rows

C3_DescriptorAccess ==
    [][(result'.op = "get" /\ HasFunction(types[result'.cls])) =>
           IF IsCollection(result'.base)
           THEN /\ result'.out.raised = "None"
                /\ result'.out.ret.t = "FlexQuery"
                /\ result'.out.ret.id \notin DOMAIN bound
                /\ result'.out.ret.id \in DOMAIN bound'
                /\ bound'[result'.out.ret.id] =
                       [cls |-> result'.cls, base |-> result'.base]
                /\ \A i \in DOMAIN bound : bound'[i] = bound[i]
           ELSE /\ result'.out = Returns([t |-> "type", cls |-> result'.cls], <<>>)
                /\ bound' = bound]_vars

\* two accesses of one definition on one holder have built two instances
C3_Witness ==
    /\ result.op = "get"
    /\ result.out.raised = "None"
    /\ result.out.ret = InstanceRef(2)
    /\ Len(bound) = 2
    /\ bound[1] = bound[2]

\* C6: either factory called on a type that carries a function raises
\* NotImplementedError and changes no type; no factory call on a type made
\* by a factory returns, whatever that type carries: a factory call that
\* returns a new type was made on the type without function.
C6_RederivationRejected ==
    [][(result'.op \in {"from_q", "from_queryset"}) =>
           /\ CarriesFunction(types[result'.cls]) =>
                  result'.out.raised = "NotImplementedError"
           /\ types[result'.cls].initialized =>
                  /\ result'.out.raised # "None"
                  /\ types' = types
           /\ result'.out.raised = "None" =>
                  /\ types[result'.cls] = FlexQuery
                  /\ Len(types') = Len(types) + 1
                  /\ \A i \in DOMAIN types : types'[i] = types[i]]_vars

\* from_q was called on a type made by from_queryset and raised
C6_Witness ==
    /\ result.op = "from_q"
    /\ types[result.cls].qs_func = qs_func
    /\ result.out.raised = "NotImplementedError"

\* C7: binding the type without function raises ImproperlyConfigured for
\* every base; binding a type with a function to a base that is neither
\* manager nor query collection raises TypeError; neither builds an
\* instance.  Every instance is of a type with a function and over a
\* manager or query collection.
C7_BoundInvariant ==
    /\ result.op = "bind" =>
           /\ ~HasFunction(types[result.cls]) =>
                  result.out.raised = "ImproperlyConfigured"
           /\ (HasFunction(types[result.cls]) /\ ~IsCollection(result.base)) =>
                  result.out.raised = "TypeError"
           /\ result.out.raised # "None" =>
                  \A i \in DOMAIN bound : bound[i] # [cls |-> result.cls,
                                                     base |-> result.base]
    /\ \A i \in DOMAIN bound :
           /\ HasFunction(types[bound[i].cls])
           /\ IsCollection(bound[i].base)

\* a definition was bound to an object that is no collection, after an
\* instance of it had been built
C7_Witness ==
    /\ result.op = "bind"
    /\ HasFunction(types[result.cls])
    /\ result.base = OtherObj
    /\ result.out.raised = "TypeError"
    /\ Len(bound) = 1

\* C8: the predicate factory called on FlexQuery with a func that is no
\* function raises TypeError, and no type holding such a func exists.
C8_FactoryValidates ==
    /\ (result.op = "from_q" /\ ~types[result.cls].initialized
            /\ result.func.t # "function") =>
           result.out.raised = "TypeError"
    /\ \A i \in DOMAIN types : types[i].q_func.t \in {"None", "function"}

\* the user the first argument stands for: itself, or the user attribute
\* of a request, None when the request has none
Resolved(arg) ==
    IF arg.t = "HttpRequest"
    THEN IF arg.has_user THEN arg.user ELSE [t |-> "None"]
    ELSE arg

C9_DefinitionsSurvive ==
    derived.op \in {"from_queryset", "as_manager"} =>
        \A n \in DOMAIN qsattrs :
            /\ (qsattrs[n].t = "FlexQueryType"
                    /\ qsattrs[n].queryset_only # "True") =>
                   /\ n \in DOMAIN derived.attrs
                   /\ derived.attrs[n] = qsattrs[n]
            /\ (qsattrs[n].t = "function" /\ n \notin {"count"}
                    /\ (qsattrs[n].queryset_only = "False"
                        \/ (qsattrs[n].queryset_only = "None" /\ n # "_fq"))) =>
                   /\ n \in DOMAIN derived.attrs
                   /\ derived.attrs[n] = [t |-> "manager_method", name |-> n]

\* as_manager() on a QS with a FlexQuery type under a private name, one
\* under a name the manager has already, and a function
C9_Witness ==
    /\ derived.op = "as_manager"
    /\ DOMAIN qsattrs = {"fq", "_fq", "count"}
    /\ qsattrs["_fq"].t = "FlexQueryType"
    /\ qsattrs["count"].t = "FlexQueryType"
    /\ qsattrs["fq"].t = "function"
    /\ DOMAIN derived.attrs = {"fq", "_fq", "count"}

-----------------------------------------------------------------------------
(* Properties of Q.prefix() *)

\* r has the shape of t, and every leaf (key, value) of t is
\* (p + "__" + key, value) in r
RECURSIVE PrefixedLike(_, _, _)
PrefixedLike(t, r, p) ==
    /\ IsQ(r)
    /\ Len(r.children) = Len(t.children)
    /\ r.connector = t.connector
    /\ r.negated = t.negated
    /\ \A i \in DOMAIN t.children :
           LET c == t.children[i]
               d == r.children[i]
           IN IF IsQ(c)
              THEN IsQ(d) /\ PrefixedLike(c, d, p)
              ELSE d = Tuple(p \o <<"_", "_">> \o c.key, c.value)

\* the lookup keys of a tree, left to right
RECURSIVE LeafKeys(_)
LeafKeys(q) ==
    LET RECURSIVE Cat(_)
        Cat(i) == IF i = 0 THEN <<>>
                  ELSE Cat(i - 1) \o (IF IsQ(q.children[i])
                                      THEN LeafKeys(q.children[i])
                                      ELSE <<q.children[i].key>>)
    IN Cat(Len(q.children))

\* the receiver of the i-th prefix() call of the chain
Receiver(i) == IF i = 1 THEN qlog.recv ELSE qlog.rets[i - 1]

\* C4: t.prefix(p) returns a tree of the same shape as t (child count and
\* order, connector and negation flag at every node), every leaf
\* (key, value) becoming (p + "__" + key, value); the empty tree maps to
\* an empty tree.
C4_PrefixPreservesShape ==
    \A i \in DOMAIN qlog.rets :
        /\ PrefixedLike(Receiver(i), qlog.rets[i], qlog.prefixes[i])
        /\ (Receiver(i).children = <<>> => qlog.rets[i].children = <<>>)

\* a negated node nested under an OR node has been prefixed
C4_Witness ==
    /\ Len(qlog.rets) = 1
    /\ qlog.recv.connector = OR
    /\ \E i \in DOMAIN qlog.recv.children :
           /\ IsQ(qlog.recv.children[i])
           /\ qlog.recv.children[i].negated
    /\ qlog.rets[1].connector = OR

\* C5 as stated: t.prefix(p1).prefix(p2) has every leaf key equal to
\* p1 + "__" + p2 + "__" + key.
C5_Original ==
    Len(qlog.rets) >= 2 =>
        LET p1 == qlog.prefixes[1]
            p2 == qlog.prefixes[2]
            ks == LeafKeys(qlog.recv)
        IN LeafKeys(qlog.rets[2]) =
               [i \in DOMAIN ks |->
                   p1 \o <<"_", "_">> \o p2 \o <<"_", "_">> \o ks[i]]

\* C5 amended: t.prefix(p1).prefix(p2) has every leaf key equal to
\* p2 + "__" + p1 + "__" + key: the prefix applied last is outermost.
C5_PrefixComposes ==
    Len(qlog.rets) >= 2 =>
        LET p1 == qlog.prefixes[1]
            p2 == qlog.prefixes[2]
            ks == LeafKeys(qlog.recv)
        IN LeafKeys(qlog.rets[2]) =
               [i \in DOMAIN ks |->
                   p2 \o <<"_", "_">> \o p1 \o <<"_", "_">> \o ks[i]]

\* two different prefixes have been applied in a row to a tree with leaves
C5_Witness ==
    /\ Len(qlog.rets) >= 2
    /\ qlog.prefixes[1] # qlog.prefixes[2]
    /\ LeafKeys(qlog.recv) # <<>>

\* C12: a call of prefix() leaves every Q object that existed before it as
\* it was (the receiver and the objects nested in it keep their children,
\* connector and negation flag, whichever object the call is made on and
\* however many calls were made before), and every object of the returned
\* tree is constructed by the call, so that none is an object of the
\* receiver.
C12_PrefixAllocates ==
    [][(hlog'.op = "prefix" /\ hvars' # hvars) =>
           /\ \A id \in DOMAIN heap : id \in DOMAIN heap' /\ heap'[id] = heap[id]
           /\ Nodes(heap', hlog'.ret) \cap DOMAIN heap = {}
           /\ Nodes(heap', hlog'.ret) \cap Nodes(heap, hlog'.self) = {}]_vars

\* prefix() was called on the result of an earlier prefix() call whose
\* receiver has a nested Q object
C12_Witness ==
    /\ hlog.op = "prefix"
    /\ \E t \in DOMAIN heap :
           /\ Cardinality(Nodes(heap, t)) = 2
           /\ hlog.self \notin Nodes(heap, t)
           /\ Deref(heap, Ref(hlog.self)) = prefix(Deref(heap, Ref(t)), <<"x">>)
    /\ Cardinality(Nodes(heap, hlog.ret)) = 2

====
